---- MODULE Spec2Model ----
(***************************************************************************)
(* The print server of strava-receipt (src/print-server.js): the HTTP      *)
(* handler of startPrintServer, the transmission part of                   *)
(* createAndPrintActivityReceipt (section split, printer discovery, the    *)
(* callback-chained printSection, the single-shot branch) and the Node     *)
(* event loop that runs their callbacks and timers.                        *)
(*                                                                         *)
(* Time is in milliseconds.  One step of the model is one run-to-          *)
(* completion turn of the event loop: a handler or callback, together with *)
(* the promise continuations (microtasks) it releases.                     *)
(*                                                                         *)
(* Spec is the server.  ComposeSpec is one composition of a receipt, block *)
(* by block; RasterSpec is the raster encoder on one image; QRSpec is      *)
(* buildEpsonQR on one string.                                             *)
(***************************************************************************)
EXTENDS Integers, Sequences, FiniteSets, TLC

\* ------------------------------------------------------------ bounds

\* number of POST /print requests in a run
MaxJobs == 1
\* largest number of section breaks in a composed stream
MaxBreaks == 3
\* number of environment faults (failed write, failed lp, failed unlink,
\* failed mkdir) in a run
MaxFaults == 2
\* number of times the clock advances by itself (latency of an lp process,
\* of image loading, of the next request, of a late timer)
MaxWaits == 1
\* number of GET /status requests in a run
MaxStatus == 1

\* ------------------------------------------------------------ constants

Modes == {"off", "fast", "medium", "slow"}

SLOW_PRINT_DELAYS ==
  [m \in Modes |-> CASE m = "off" -> 0
                     [] m = "fast" -> 50
                     [] m = "medium" -> 150
                     [] m = "slow" -> 300]

\* grace delays before a spool file is unlinked
SectionCleanupMs == 1000
SingleCleanupMs == 5000

PRINT_SERVER_PORT == 3001

SECTION_BREAK ==
  <<"<", "<", "<", "S", "E", "C", "T", "I", "O", "N", ">", ">", ">">>

possiblePrinters ==
  <<"EPSON_TM_T20III", "Epson_TM_T20III", "TM-T20III", "TM-T20", "Epson">>

\* ------------------------------------------------------------ helpers

SetMin(S) == CHOOSE x \in S : \A y \in S : x <= y

RECURSIVE Join(_)
\* lines.join('')
Join(lines) ==
  IF lines = <<>> THEN <<>> ELSE Head(lines) \o Join(Tail(lines))

IsAt(s, sep, i) ==
  /\ i + Len(sep) - 1 <= Len(s)
  /\ \A k \in 1..Len(sep) : s[i + k - 1] = sep[k]

\* String.prototype.indexOf, 1-based, 0 when absent
IndexOf(s, sep) ==
  LET hits == {i \in 1..Len(s) : IsAt(s, sep, i)}
  IN  IF hits = {} THEN 0 ELSE SetMin(hits)

RECURSIVE Split(_, _)
\* String.prototype.split with a string separator
Split(s, sep) ==
  LET i == IndexOf(s, sep)
  IN  IF i = 0
      THEN <<s>>
      ELSE <<SubSeq(s, 1, i - 1)>> \o Split(SubSeq(s, i + Len(sep), Len(s)), sep)

NonEmpty(s) == Len(s) > 0

\* keeps the empty pieces: fullContent.split(SECTION_BREAK) with the filter dropped
SplitSectionsKeepEmpty(fullContent) == Split(fullContent, SECTION_BREAK)

\* fullContent.split(SECTION_BREAK).filter(s => s.length > 0)
SplitSections(fullContent) ==
  SelectSeq(Split(fullContent, SECTION_BREAK), NonEmpty)

RECURSIVE RemoveAll(_, _)
\* fullContent.replace(new RegExp(SECTION_BREAK, 'g'), '')
RemoveAll(s, sep) ==
  IF s = <<>> THEN <<>>
  ELSE IF IsAt(s, sep, 1)
       THEN RemoveAll(SubSeq(s, Len(sep) + 1, Len(s)), sep)
       ELSE <<Head(s)>> \o RemoveAll(Tail(s), sep)

\* ------------------------------------------------------------ inputs

\* The text pushed between two section breaks, one character per piece.
PieceChars == <<"a", "b", "c", "d", "e", "f">>

\* A composed stream: `breaks` section breaks, hence breaks + 1 pieces; the
\* pieces in `empty` push nothing (the photo block of an activity without
\* photos).  The first piece (INIT ...) and the last (footer, cut) always push.
StreamInputs ==
  {in \in [breaks : 0..MaxBreaks, empty : SUBSET (2..MaxBreaks)] :
     in.empty \subseteq 2..in.breaks}

Piece(in, p) == IF p \in in.empty THEN <<>> ELSE <<PieceChars[p]>>

RECURSIVE LinesFrom(_, _)
LinesFrom(in, p) ==
  IF p > in.breaks + 1 THEN <<>>
  ELSE (IF p \in in.empty THEN <<>> ELSE <<Piece(in, p)>>)
       \o (IF p <= in.breaks THEN <<SECTION_BREAK>> ELSE <<>>)
       \o LinesFrom(in, p + 1)

\* the array `lines` at the end of composition
Lines(in) == LinesFrom(in, 1)

NonEmptyPieces(in) == {p \in 1..(in.breaks + 1) : p \notin in.empty}

\* request bodies: not JSON, {}, {"activity": null}, {"activity": {"id": 1, ...}}
Bodies ==
  {[parses |-> FALSE, activity |-> "undefined", id |-> 0],
   [parses |-> TRUE, activity |-> "undefined", id |-> 0],
   [parses |-> TRUE, activity |-> "null", id |-> 0],
   [parses |-> TRUE, activity |-> "object", id |-> 1]}

\* sets of candidate printer names the OS print queue resolves
InstalledChoices == {{}, {"Epson_TM_T20III", "Epson"}}

\* the jobs of a run: the requests the server takes one by one, and the one
\* that follows them
Jobs == 1..(MaxJobs + 1)

NoInput == [breaks |-> 0, empty |-> {}]
NoBody == [parses |-> FALSE, activity |-> "undefined", id |-> 0]
NoResp == [status |-> 0, body |-> "none"]

VARIABLES
  mode,        \* SLOW_PRINT_MODE
  installed,   \* printers lpstat resolves
  now,         \* Date.now()
  waits,       \* clock advances of Wait, so far
  faults,      \* environment faults so far
  alive,       \* the service process runs
  unhandled,   \* promise rejections no handler took
  tempDir,     \* the temp directory exists
  nreq,        \* requests received
  req,         \* job -> request body
  pc,          \* job -> "idle" | "composing" | "done"
  resp,        \* job -> response sent
  input,       \* job -> composed stream, as composed
  fullContent, \* job -> lines.join('')
  sections,    \* job -> the sections
  path,        \* job -> "none" | "paced" | "single"
  printerName, \* job -> discovered printer, "" for none
  probes,      \* job -> lpstat probes made
  chain,       \* job -> "none" | "running" | "done"
  files,       \* the temp directory: [name, content, job that wrote it]
  execs,       \* lp processes whose callback has not run
  timers,      \* pending setTimeout callbacks
  submitted,   \* the exec(lp ...) calls issued, in order
  results,     \* lp callbacks that ran: [job, index, err]
  cleaned,     \* unlink attempts: [job, index, ok]
  log,         \* console output: [job, index, msg]
  statusLog,   \* the responses to GET /status, in order
  cs,          \* one composition: the state of createAndPrintActivityReceipt
               \* from its entry to the end of the composition
  rs,          \* one run of the raster encoder: image in, raster command out
  qs,          \* one run of buildEpsonQR: data in, command out
  gs,          \* one route through the route block and buildGPSRouteRasterString
  ps,          \* one pace computed
  bs,          \* one raster command framed and spooled
  ts,          \* one call of threeCol
  ws,          \* one call of wrapText
  ls,          \* the text lines of one receipt
  ds           \* one stream delivered both ways

\* the state of the print jobs
jobVars ==
  <<mode, installed, now, waits, faults, alive, unhandled, tempDir, nreq, req,
    pc, resp, input, fullContent, sections, path, printerName, probes, chain,
    files, execs, timers, submitted, results, cleaned, log>>

\* the state of the server
serverVars == <<jobVars, statusLog>>

\* the state of the functions studied by themselves
auxVars == <<cs, rs, qs, gs, ps, bs, ts, ws, ls, ds>>

vars == <<serverVars, auxVars>>

\* SLOW_PRINT_MODE is a constant of the source ('slow' as shipped); a run
\* starts with any key of SLOW_PRINT_DELAYS.  The temp directory is created
\* by the first job.
ServerInit ==
  /\ statusLog = <<>>
  /\ mode \in Modes
  /\ installed \in InstalledChoices
  /\ now = 0
  /\ waits = 0
  /\ faults = 0
  /\ alive = TRUE
  /\ unhandled = 0
  /\ tempDir = FALSE
  /\ nreq = 0
  /\ req = [j \in Jobs |-> NoBody]
  /\ pc = [j \in Jobs |-> "idle"]
  /\ resp = [j \in Jobs |-> NoResp]
  /\ input = [j \in Jobs |-> NoInput]
  /\ fullContent = [j \in Jobs |-> <<>>]
  /\ sections = [j \in Jobs |-> <<>>]
  /\ path = [j \in Jobs |-> "none"]
  /\ printerName = [j \in Jobs |-> ""]
  /\ probes = [j \in Jobs |-> 0]
  /\ chain = [j \in Jobs |-> "none"]
  /\ files = {}
  /\ execs = {}
  /\ timers = {}
  /\ submitted = <<>>
  /\ results = {}
  /\ cleaned = {}
  /\ log = {}

\* no composition under study
NoCompose ==
  [pc |-> "none", logo |-> "empty", route |-> "null", photos |-> <<>>, i |-> 0,
   lines |-> <<>>, fetched |-> <<>>, rendered |-> <<>>, log |-> <<>>,
   sections |-> <<>>]

NoRaster ==
  [pc |-> "none", width |-> 0, height |-> 0, bg |-> <<0, 0, 0, 0>>,
   fg |-> <<0, 0, 0, 0>>, fx |-> 0, fy |-> 0, bytesPerRow |-> 0,
   raster |-> <<>>, command |-> <<>>]

NoQR ==
  [pc |-> "none", data |-> <<>>, payload |-> <<>>, store |-> <<>>,
   command |-> <<>>]

NoRoute ==
  [pc |-> "none", route |-> <<>>, tools |-> FALSE, path |-> <<>>,
   result |-> "", fragments |-> <<>>]

NoPace ==
  [pc |-> "none", distance10 |-> 0, movingTime |-> 0,
   paceStr |-> [na |-> TRUE, min |-> <<>>, sec |-> <<>>]]

NoFrame ==
  [pc |-> "none", bytesPerRow |-> 0, height |-> 0, rasterData |-> <<>>,
   printDelay |-> 0, command |-> <<>>, fullContent |-> <<>>,
   spooled |-> <<>>]

NoCols ==
  [pc |-> "none", col1 |-> <<>>, col2 |-> <<>>, col3 |-> <<>>,
   line |-> <<>>]

NoWrap == [pc |-> "none", text |-> <<>>, width |-> 0, lines |-> <<>>]

NoText ==
  [pc |-> "none", name |-> <<>>, location |-> <<>>, type |-> <<>>,
   text |-> <<>>]

NoDelivery ==
  [pc |-> "none", name |-> <<>>, location |-> <<>>, fullContent |-> <<>>,
   slow |-> <<>>, off |-> <<>>, sent |-> {}]

\* the functions studied by themselves, all but those of `busy`, are not
\* running
IdleBut(busy) ==
  /\ "cs" \in busy \/ cs = NoCompose
  /\ "rs" \in busy \/ rs = NoRaster
  /\ "qs" \in busy \/ qs = NoQR
  /\ "gs" \in busy \/ gs = NoRoute
  /\ "ps" \in busy \/ ps = NoPace
  /\ "bs" \in busy \/ bs = NoFrame
  /\ "ts" \in busy \/ ts = NoCols
  /\ "ws" \in busy \/ ws = NoWrap
  /\ "ls" \in busy \/ ls = NoText
  /\ "ds" \in busy \/ ds = NoDelivery

\* no builder is running on its own
AuxIdle == IdleBut({})

Init == ServerInit /\ AuxIdle

\* ------------------------------------------------------------ the handler

\* res.end(JSON.stringify({ status: 'ready', port: PRINT_SERVER_PORT }))
\* answered only while no section is pending
StatusReplyWhenIdle ==
  IF execs = {} /\ timers = {}
  THEN [status |-> 200, body |-> "ready", port |-> PRINT_SERVER_PORT]
  ELSE [status |-> 503, body |-> "busy", port |-> PRINT_SERVER_PORT]

\* res.writeHead(200); res.end(JSON.stringify({ status: 'ready', port }))
StatusReply == [status |-> 200, body |-> "ready", port |-> PRINT_SERVER_PORT]

\* GET /status
GetStatus ==
  /\ alive
  /\ Len(statusLog) < MaxStatus
  /\ statusLog' = Append(statusLog, StatusReply)
  /\ UNCHANGED <<auxVars, jobVars>>

\* JSON.parse(body) returns
ParseOk(body) == body.parses

\* the validation with the test dropped
ActivityMissingNever(body) == FALSE

\* !activity
ActivityMissing(body) == body.activity \in {"undefined", "null"}

Response(status, body) == [status |-> status, body |-> body]

\* req.on('end', ...) of POST /print up to the first await, for a run of
\* `limit` requests
Accept(body, limit) ==
  /\ alive
  /\ nreq < limit
  /\ LET j == nreq + 1 IN
     /\ nreq' = j
     /\ req' = [req EXCEPT ![j] = body]
     /\ IF ~ParseOk(body)
        THEN /\ resp' = [resp EXCEPT ![j] = Response(500, "error")]
             /\ pc' = [pc EXCEPT ![j] = "done"]
             /\ log' = log \cup {[job |-> j, index |-> 0,
                                  msg |-> "Error processing print request"]}
        ELSE IF ActivityMissing(body)
        THEN /\ resp' = [resp EXCEPT ![j] = Response(400, "error")]
             /\ pc' = [pc EXCEPT ![j] = "done"]
             /\ log' = log
        ELSE /\ resp' = resp
             /\ pc' = [pc EXCEPT ![j] = "composing"]
             /\ log' = log
  /\ UNCHANGED <<auxVars, statusLog, mode, installed, now, waits, faults, alive, unhandled,
                 tempDir, input, fullContent, sections, path, printerName,
                 probes, chain, files, execs, timers, submitted, results,
                 cleaned>>

\* a request ends while none is in flight behind it
ReqEnd(body) == Accept(body, MaxJobs)

\* ------------------------------------------------------------ the scheduler

\* the loop without its break: the last name lpstat resolves
DiscoverLast(inst) ==
  LET hits == {i \in 1..Len(possiblePrinters) : possiblePrinters[i] \in inst}
  IN  IF hits = {} THEN "" ELSE possiblePrinters[CHOOSE i \in hits : \A k \in hits : k <= i]

\* the loop over possiblePrinters: the first name lpstat resolves, "" for none
Discover(inst) ==
  LET hits == {i \in 1..Len(possiblePrinters) : possiblePrinters[i] \in inst}
  IN  IF hits = {} THEN "" ELSE possiblePrinters[SetMin(hits)]

\* the number of lpstat calls the loop makes
ProbeCount(inst) ==
  LET hits == {i \in 1..Len(possiblePrinters) : possiblePrinters[i] \in inst}
  IN  IF hits = {} THEN Len(possiblePrinters) ELSE SetMin(hits)

\* SLOW_PRINT_DELAYS[SLOW_PRINT_MODE] || 0
PrintDelay(m) == SLOW_PRINT_DELAYS[m]

\* the test on the delay alone
UsePacedWheneverDelayed(printDelay, secs) == printDelay > 0

\* printDelay > 0 && sections.length > 1
UsePaced(printDelay, secs) == printDelay > 0 /\ Len(secs) > 1

\* section_${index}_${Date.now()}.bin
SectionFile(index, t) == [kind |-> "section", index |-> index, stamp |-> t]

\* activity_${activity.id || Date.now()}.txt
ActivityFile(id, t) ==
  [kind |-> "activity", index |-> 0, stamp |-> IF id # 0 THEN id ELSE t]

\* fs.writeFileSync(filepath, ...)
WriteFile(fsys, name, content, j) ==
  {f \in fsys : f.name # name} \cup
  {[name |-> name, content |-> content, job |-> j]}

\* the index the chain repeats
SameIndex(index) == index

\* printSection(index + 1)
NextIndex(index) == index + 1

\* the timer set with no delay
NextDueAtOnce(t, m) == t

\* setTimeout(() => printSection(index + 1), printDelay): the earliest time
\* the callback runs
NextDue(t, m) == t + PrintDelay(m)

Note(j, index, msg) == [job |-> j, index |-> index, msg |-> msg]

\* one call of printSection(index), up to its return
PrintSection(j, secs, printer, index, writeOk) ==
  IF index >= Len(secs)
  THEN /\ chain' = [chain EXCEPT ![j] = "done"]
       /\ log' = log \cup {Note(j, index, "All sections printed")}
       /\ UNCHANGED <<files, execs, submitted, unhandled, faults>>
  ELSE IF ~writeOk
  THEN \* writeFileSync throws inside the async function: the promise it
       \* returned is rejected, and no caller holds it
       /\ faults < MaxFaults
       /\ faults' = faults + 1
       /\ unhandled' = unhandled + 1
       /\ chain' = [chain EXCEPT ![j] = "running"]
       /\ UNCHANGED <<files, execs, submitted, log>>
  ELSE LET name == SectionFile(index, now)
           content == secs[index + 1]
       IN  /\ files' = WriteFile(files, name, content, j)
           /\ execs' = execs \cup
                {[job |-> j, index |-> index, file |-> name, kind |-> "paced"]}
           /\ submitted' = Append(submitted,
                [job |-> j, index |-> index, file |-> name,
                 content |-> content, printer |-> printer, at |-> now])
           /\ chain' = [chain EXCEPT ![j] = "running"]
           /\ UNCHANGED <<unhandled, faults, log>>

\* createAndPrintActivityReceipt from the end of composition to its return,
\* then the handler's response
Transmit(j, in, mkdirOk, writeOk) ==
  /\ alive
  /\ pc[j] = "composing"
  /\ LET content == Join(Lines(in))
         secs == SplitSections(content)
         printDelay == PrintDelay(mode)
         printer == Discover(installed)
     IN
     /\ input' = [input EXCEPT ![j] = in]
     /\ fullContent' = [fullContent EXCEPT ![j] = content]
     /\ sections' = [sections EXCEPT ![j] = secs]
     /\ IF ~tempDir /\ ~mkdirOk
        THEN \* mkdirSync throws: caught by the function's own catch
             /\ writeOk
             /\ faults < MaxFaults
             /\ faults' = faults + 1
             /\ log' = log \cup {Note(j, 0, "Error creating activity receipt")}
             /\ UNCHANGED <<tempDir, path, printerName, probes, chain, files,
                            execs, submitted, unhandled>>
        ELSE
          /\ mkdirOk
          /\ tempDir' = TRUE
          /\ printerName' = [printerName EXCEPT ![j] = printer]
          /\ probes' = [probes EXCEPT ![j] = ProbeCount(installed)]
          /\ IF UsePaced(printDelay, secs)
             THEN /\ path' = [path EXCEPT ![j] = "paced"]
                  /\ PrintSection(j, secs, printer, 0, writeOk)
             ELSE /\ path' = [path EXCEPT ![j] = "single"]
                  /\ chain' = chain
                  /\ unhandled' = unhandled
                  /\ IF ~writeOk
                     THEN \* writeFileSync throws: caught by the function's catch
                          /\ faults < MaxFaults
                          /\ faults' = faults + 1
                          /\ log' = log \cup
                               {Note(j, 0, "Error creating activity receipt")}
                          /\ UNCHANGED <<files, execs, submitted>>
                     ELSE LET name == ActivityFile(req[j].id, now)
                              clean == RemoveAll(content, SECTION_BREAK)
                          IN  /\ files' = WriteFile(files, name, clean, j)
                              /\ execs' = execs \cup
                                   {[job |-> j, index |-> 0, file |-> name,
                                     kind |-> "single"]}
                              /\ submitted' = Append(submitted,
                                   [job |-> j, index |-> 0, file |-> name,
                                    content |-> clean, printer |-> printer,
                                    at |-> now])
                              /\ UNCHANGED <<faults, log>>
  \* await createAndPrintActivityReceipt(...) returns: res.writeHead(200)
  /\ resp' = [resp EXCEPT ![j] = Response(200, "success")]
  /\ pc' = [pc EXCEPT ![j] = "done"]
  /\ UNCHANGED <<auxVars, statusLog, mode, installed, now, waits, alive, nreq, req, timers,
                 results, cleaned>>

Timer(kind, j, index, file, due) ==
  [kind |-> kind, job |-> j, index |-> index, file |-> file, due |-> due]

\* the callback of exec(printCommand, ...), paced and single-shot
ExecCallback(e, err) ==
  /\ alive
  /\ e \in execs
  /\ err => faults < MaxFaults
  /\ faults' = IF err THEN faults + 1 ELSE faults
  /\ execs' = execs \ {e}
  /\ results' = results \cup {[job |-> e.job, index |-> e.index, err |-> err]}
  /\ IF e.kind = "paced"
     THEN /\ log' = log \cup
               {Note(e.job, e.index,
                     IF err THEN "Section print error" ELSE "Section sent")}
          /\ timers' = timers \cup
               {Timer("cleanup", e.job, e.index, e.file, now + SectionCleanupMs),
                Timer("next", e.job, NextIndex(e.index), e.file,
                      NextDue(now, mode))}
     ELSE IF err
     THEN \* logs and returns: no cleanup timer is set
          /\ log' = log \cup {Note(e.job, e.index, "Print error")}
          /\ timers' = timers
     ELSE /\ log' = log \cup {Note(e.job, e.index, "Activity receipt sent")}
          /\ timers' = timers \cup
               {Timer("cleanup", e.job, e.index, e.file, now + SingleCleanupMs)}
  /\ UNCHANGED <<auxVars, statusLog, mode, installed, now, waits, alive, unhandled, tempDir, nreq,
                 req, pc, resp, input, fullContent, sections, path,
                 printerName, probes, chain, files, submitted, cleaned>>

\* setTimeout(() => printSection(index + 1), printDelay) fires
NextTimer(t, writeOk) ==
  /\ alive
  /\ t \in timers
  /\ t.kind = "next"
  /\ t.due <= now
  /\ timers' = timers \ {t}
  /\ PrintSection(t.job, sections[t.job], printerName[t.job], t.index, writeOk)
  /\ t.index >= Len(sections[t.job]) => writeOk
  /\ UNCHANGED <<auxVars, statusLog, mode, installed, now, waits, alive, tempDir, nreq, req, pc,
                 resp, input, fullContent, sections, path, printerName,
                 probes, results, cleaned>>

\* the cleanup timers: try { fs.unlinkSync(filepath) } catch ...
CleanupTimer(t, unlinkOk) ==
  /\ alive
  /\ t \in timers
  /\ t.kind = "cleanup"
  /\ t.due <= now
  /\ timers' = timers \ {t}
  /\ LET there == \E f \in files : f.name = t.file
         ok == there /\ unlinkOk
     IN  /\ (there /\ ~unlinkOk) => faults < MaxFaults
         /\ ~there => unlinkOk
         /\ faults' = IF there /\ ~unlinkOk THEN faults + 1 ELSE faults
         /\ files' = IF ok THEN {f \in files : f.name # t.file} ELSE files
         /\ cleaned' = cleaned \cup {[job |-> t.job, index |-> t.index, ok |-> ok]}
         /\ log' = IF path[t.job] = "single"
                   THEN log \cup {Note(t.job, t.index,
                          IF ok THEN "Temp file cleaned up" ELSE "Cleanup error")}
                   ELSE log
  /\ UNCHANGED <<auxVars, statusLog, mode, installed, now, waits, alive, unhandled, tempDir, nreq,
                 req, pc, resp, input, fullContent, sections, path,
                 printerName, probes, chain, execs, submitted, results>>

\* ------------------------------------------------------------ the runtime

\* An unhandled rejection ends the process where the runtime's default is to
\* throw (Node 15 and later) and only warns elsewhere.
Crash ==
  /\ alive
  /\ unhandled > 0
  /\ alive' = FALSE
  /\ UNCHANGED <<auxVars, statusLog, mode, installed, now, waits, faults, unhandled, tempDir, nreq,
                 req, pc, resp, input, fullContent, sections, path,
                 printerName, probes, chain, files, execs, timers, submitted,
                 results, cleaned, log>>

Dues == {t.due : t \in timers}

\* the smallest positive delay of the table: the step of the clock
Quantum == SetMin({SLOW_PRINT_DELAYS[m] : m \in Modes} \ {0})

\* time passes while something is awaited: an lp process, an image load,
\* the next request, or a timer the event loop is late for (a timer never
\* fires early, it may fire late)
Wait ==
  /\ alive
  /\ waits < MaxWaits
  /\ \/ execs # {}
     \/ timers # {}
     \/ nreq < MaxJobs
     \/ \E j \in Jobs : pc[j] = "composing"
  /\ now' = now + Quantum
  /\ waits' = waits + 1
  /\ UNCHANGED <<auxVars, statusLog, mode, installed, faults, alive, unhandled, tempDir, nreq, req,
                 pc, resp, input, fullContent, sections, path, printerName,
                 probes, chain, files, execs, timers, submitted, results,
                 cleaned, log>>

\* the event loop sleeps until its earliest timer is due
Sleep ==
  /\ alive
  /\ timers # {}
  /\ \A d \in Dues : now < d
  /\ now' = SetMin(Dues)
  /\ UNCHANGED <<auxVars, statusLog, mode, installed, waits, faults, alive, unhandled, tempDir,
                 nreq, req, pc, resp, input, fullContent, sections, path,
                 printerName, probes, chain, files, execs, timers, submitted,
                 results, cleaned, log>>

Next ==
  \/ \E body \in Bodies : ReqEnd(body)
  \/ \E j \in Jobs, in \in StreamInputs, mkdirOk \in BOOLEAN, writeOk \in BOOLEAN :
       Transmit(j, in, mkdirOk, writeOk)
  \/ \E e \in execs, err \in BOOLEAN : ExecCallback(e, err)
  \/ \E t \in timers, writeOk \in BOOLEAN : NextTimer(t, writeOk)
  \/ \E t \in timers, unlinkOk \in BOOLEAN : CleanupTimer(t, unlinkOk)
  \/ Crash
  \/ Wait
  \/ Sleep
  \/ GetStatus

Spec == Init /\ [][Next]_vars

\* ------------------------------------------------------------ properties

InJob(j, s) == SelectSeq(s, LAMBDA x : x.job = j)

\* the exec(lp ...) calls of job j, in the order issued
SubsOf(j) == InJob(j, submitted)

Touched(j) ==
  \/ probes[j] # 0
  \/ path[j] # "none"
  \/ fullContent[j] # <<>>
  \/ sections[j] # <<>>
  \/ SubsOf(j) # <<>>
  \/ \E e \in execs : e.job = j
  \/ \E t \in timers : t.job = j
  \/ \E f \in files : f.job = j

NoActivityField(j) ==
  j <= nreq /\ req[j].parses /\ req[j].activity = "undefined"

\* C1: a POST /print whose JSON body has no activity field is answered 400
\* with an error field, and nothing is composed, probed, written or
\* submitted for it.
C1_MissingActivityIs400 ==
  \A j \in Jobs :
    NoActivityField(j) =>
      /\ resp[j] = Response(400, "error")
      /\ pc[j] = "done"
      /\ ~Touched(j)

C1_Witness ==
  \E j \in Jobs : NoActivityField(j) /\ resp[j].status = 400 /\ alive

\* an exception reached the catch of createAndPrintActivityReceipt
Threw(j) ==
  \E l \in log : l.job = j /\ l.msg = "Error creating activity receipt"

\* C2: with an activity present, an exception raised during composition or
\* transmission is answered 500 with the exception's message, never 200.
C2_ExceptionIs500 ==
  \A j \in Jobs :
    (req[j].activity = "object" /\ Threw(j)) =>
      resp[j] = Response(500, "error")

\* C3: no failure ends the service process or leaves an exception unhandled.
C3_NothingUnhandled == alive /\ unhandled = 0

\* C4: in paced transmission the sections of a job are submitted in
\* strictly increasing index order, section N + 1 never before section N,
\* whatever the earlier submissions reported.
C4_SectionsInOrder ==
  \A j \in Jobs :
    path[j] = "paced" =>
      LET s == SubsOf(j) IN
      /\ \A k \in 1..Len(s), l \in 1..Len(s) :
           k < l => s[k].index < s[l].index
      /\ \A l \in 1..Len(s) :
           s[l].index > 0 =>
             \E k \in 1..(l - 1) : s[k].index = s[l].index - 1

C4_Witness ==
  \E j \in Jobs :
    /\ path[j] = "paced"
    /\ Len(SubsOf(j)) >= 3
    /\ \E r \in results : r.job = j /\ r.err /\ r.index = 0

\* nothing of job j is left to run: no lp callback and no chain timer
Quiescent(j) ==
  /\ ~\E e \in execs : e.job = j
  /\ ~\E t \in timers : t.job = j /\ t.kind = "next"

\* C5: in paced transmission a failed section does not stop the job: once a
\* section has failed, the job does not come to rest before every section
\* has been written and submitted.
C5_FailureDoesNotStopJob ==
  \A j \in Jobs :
    (/\ path[j] = "paced"
     /\ \E r \in results : r.job = j /\ r.err
     /\ Quiescent(j)) =>
      Len(SubsOf(j)) = Len(sections[j])

\* C6: the 200 response of POST /print is sent only after every section of
\* a paced job has been submitted.
C6_ResponseAfterTransmission ==
  \A j \in Jobs :
    (resp[j].status = 200 /\ path[j] = "paced") =>
      Len(SubsOf(j)) = Len(sections[j])

CleanupArranged(j, index) ==
  \/ \E t \in timers : t.kind = "cleanup" /\ t.job = j /\ t.index = index
  \/ \E c \in cleaned : c.job = j /\ c.index = index

\* C7: every spool file is deleted after its submission, following a grace
\* delay, whether the print command succeeded or reported an error: once
\* the lp callback has run, the unlink is scheduled or has been attempted.
C7_SpoolFilesCleaned ==
  \A r \in results : CleanupArranged(r.job, r.index)

\* C8: a failed print command of a single-shot job is surfaced to the
\* caller: the job is not reported as a success.
C8_SingleShotFailureSurfaced ==
  \A j \in Jobs :
    (path[j] = "single" /\ \E r \in results : r.job = j /\ r.err) =>
      resp[j].status # 200

ThreeBreaksMedium(j) ==
  mode = "medium" /\ path[j] = "paced" /\ input[j].breaks = 3

\* C9 as stated: paced transmission of a stream with 3 section breaks in
\* mode medium issues exactly 3 submissions.
C9_ThreeBreaksThreeSubmissions ==
  \A j \in Jobs :
    (ThreeBreaksMedium(j) /\ chain[j] = "done") => Len(SubsOf(j)) = 3

\* C9 amended: paced transmission of a stream with 3 section breaks in mode
\* medium issues one submission per non-empty piece between the breaks (4
\* when no piece is empty), never more, and exactly that many when the chain
\* has run to its end.
C9_OneSubmissionPerSection ==
  \A j \in Jobs :
    ThreeBreaksMedium(j) =>
      /\ Len(SubsOf(j)) <= Cardinality(NonEmptyPieces(input[j]))
      /\ chain[j] = "done" =>
           Len(SubsOf(j)) = Cardinality(NonEmptyPieces(input[j]))

C9_Witness ==
  \E j \in Jobs :
    /\ ThreeBreaksMedium(j)
    /\ chain[j] = "done"
    /\ Len(SubsOf(j)) = 4

\* the delay the claim states for each pacing mode
StatedDelay ==
  CASE mode = "fast" -> 50
    [] mode = "medium" -> 150
    [] mode = "slow" -> 300
    [] OTHER -> 0

\* C10: in paced transmission the time between two consecutive submission
\* calls of a job is at least the delay of the pacing mode: 50 ms in fast,
\* 150 ms in medium, 300 ms in slow.
C10_PacedGap ==
  \A j \in Jobs :
    path[j] = "paced" =>
      LET s == SubsOf(j) IN
      \A k \in 2..Len(s) : s[k].at - s[k - 1].at >= StatedDelay

C10_Witness ==
  \E j \in Jobs :
    /\ mode = "medium"
    /\ path[j] = "paced"
    /\ Len(SubsOf(j)) >= 3
    /\ SubsOf(j)[2].at - SubsOf(j)[1].at > 150
    /\ SubsOf(j)[3].at - SubsOf(j)[2].at = 150

\* the printer and the spool directory, and what was sent to them
PrinterSide == <<probes, printerName, files, execs, timers, submitted, tempDir>>

\* C13: GET /status is always answered 200 with status "ready" and the
\* port, whatever print jobs are in progress, and handling it probes no
\* printer, writes no spool file and submits nothing.
C13_StatusReadyNoEffects ==
  /\ [](\A i \in 1..Len(statusLog) :
          /\ statusLog[i].status = 200
          /\ statusLog[i].body = "ready"
          /\ statusLog[i].port = 3001)
  /\ [][statusLog' # statusLog => UNCHANGED PrinterSide]_vars

\* a status request answered while sections of a job are pending
C13_Witness ==
  /\ Len(statusLog) > 0
  /\ statusLog[1].status = 200
  /\ \E j \in Jobs : path[j] = "paced" /\ chain[j] = "running"
  /\ submitted = <<>> \/ execs # {} \/ timers # {}

Position(name) ==
  CHOOSE k \in 1..Len(possiblePrinters) : possiblePrinters[k] = name

\* p is the first candidate, in list order, that inst resolves
FirstResolved(p, inst) ==
  /\ p \in inst
  /\ \E k \in 1..Len(possiblePrinters) :
       /\ possiblePrinters[k] = p
       /\ \A m \in 1..(k - 1) : possiblePrinters[m] \notin inst

NoneResolved(inst) ==
  \A k \in 1..Len(possiblePrinters) : possiblePrinters[k] \notin inst

\* C14: discovery probes the candidates in list order and uses the first
\* one the print queue resolves, probing no later one; when none resolves
\* the job is submitted without a printer name.
C14_FirstResolvedPrinter ==
  /\ \A inst \in SUBSET {possiblePrinters[k] : k \in 1..Len(possiblePrinters)} :
       IF NoneResolved(inst)
       THEN Discover(inst) = "" /\ ProbeCount(inst) = Len(possiblePrinters)
       ELSE /\ FirstResolved(Discover(inst), inst)
            /\ ProbeCount(inst) = Position(Discover(inst))
  /\ \A i \in 1..Len(submitted) :
       LET s == submitted[i] IN
       /\ s.printer = printerName[s.job]
       /\ IF NoneResolved(installed)
          THEN s.printer = "" /\ probes[s.job] = Len(possiblePrinters)
          ELSE /\ FirstResolved(s.printer, installed)
               /\ probes[s.job] = Position(s.printer)

\* a job submitted to the second candidate although the fifth resolves too
C14_Witness ==
  /\ "Epson" \in installed
  /\ \E i \in 1..Len(submitted) :
       submitted[i].printer = "Epson_TM_T20III" /\ probes[submitted[i].job] = 2

\* ------------------------------------------------------------ composition
\* createAndPrintActivityReceipt from its entry to lines.join(''), one step
\* per block of the function; an await ends a block.

\* largest photo list of a request
MaxPhotoList == 4

\* Math.min(photos.length, 3)
PhotoLimit == 3

\* what buildLogoRasterString resolves to: a raster command, or '' when jimp
\* or the file is missing or the decode throws
LogoOutcomes == {"raster", "empty"}

\* the route argument: absent, not an array or shorter than 2 ("null"), a
\* route the builder renders ("ok"), one it gives '' for ("fail")
RouteInputs == {"null", "ok", "fail"}

\* an entry of photos: fetched and decoded ("ok"), answered with an error
\* status ("notok"), fetch or decode throws ("throw"), fetch never settles
\* ("never"), no url and no unique_id ("nourl"), a null entry ("null")
PhotoKinds == {"ok", "notok", "throw", "never", "nourl", "null"}

PhotoLists == UNION {[1..n -> PhotoKinds] : n \in 0..MaxPhotoList}

ComposeInputs ==
  {[NoCompose EXCEPT !.pc = "start", !.logo = l, !.route = r, !.photos = p] :
     l \in LogoOutcomes, r \in RouteInputs, p \in PhotoLists}

\* the server is up and no request has arrived
ServerOff == ServerInit /\ mode = "slow" /\ installed = {}

ComposeInit == ServerOff /\ IdleBut({"cs"}) /\ cs \in ComposeInputs

notCs == <<serverVars, rs, qs, gs, ps, bs, ts, ws, ls, ds>>

Min(a, b) == IF a < b THEN a ELSE b

\* the loop bound without the cap
MaxPhotosAll(photos) == Len(photos)

\* const maxPhotos = Math.min(photos.length, 3)
MaxPhotos(photos) == Min(Len(photos), PhotoLimit)

\* INIT, ESC 2, ALIGN_LEFT, FONT_A, NORMAL_SIZE, FEED(2)
HeadFragments == <<"INIT">>

LogoFragments(outcome) == IF outcome = "raster" THEN <<"LOGO">> ELSE <<>>

\* the stats block with its second divider missing
BodyFragmentsOneDivider ==
  <<"BRK", "TITLE", "BRK", "LOCATION", "DATE", "BRK", "DIVIDER", "STATS",
    "TOTALS", "BRK", "ROUTEHDR">>

\* title, location and date, the dashed line, the stats, the dashed line, the
\* totals, and the header of the route block
BodyFragments ==
  <<"BRK", "TITLE", "BRK", "LOCATION", "DATE", "BRK", "DIVIDER", "STATS",
    "DIVIDER", "TOTALS", "BRK", "ROUTEHDR">>

\* the raster when the builder gives one, '[Route visualization]' otherwise
RouteFragments(route) ==
  IF route = "ok" THEN <<"ROUTEIMG", "BRK">> ELSE <<"PLACEHOLDER", "BRK">>

\* '(+N more photo(s) on Strava)' and the closing FEED(1)
MoreFragments(photos) ==
  IF Len(photos) > MaxPhotos(photos) THEN <<"MORE">> ELSE <<>>

\* the exception of a photo leaves the function
AfterPhotoUncaught(kind) == IF kind = "throw" THEN "aborted" ELSE "photo"

\* where the loop goes after a fetched photo: the catch of lines 557-559
\* takes every exception
AfterPhoto(kind) == "photo"

\* gratuity, QR block, footer, then FEED(2), INIT, FULL_CUT_N3
TailFragments ==
  <<"BRK", "GRATUITY", "BRK", "QR", "BRK", "FOOTER", "INIT", "CUT">>

\* a fragment as pushed: the marker, or one unit of text
FragChars(tag) == IF tag = "BRK" THEN SECTION_BREAK ELSE <<tag>>

ComposedContent(lines) == Join([k \in 1..Len(lines) |-> FragChars(lines[k])])

\* lines 368-381: the init block, then the await of the logo
ComposeHead ==
  /\ cs.pc = "start"
  /\ cs' = [cs EXCEPT !.pc = "logo", !.lines = HeadFragments]
  /\ UNCHANGED notCs

\* lines 382-480: the logo if it was built, then everything up to the route
ComposeLogo ==
  /\ cs.pc = "logo"
  /\ cs' = [cs EXCEPT !.pc = "route",
                      !.lines = @ \o LogoFragments(cs.logo) \o BodyFragments]
  /\ UNCHANGED notCs

\* lines 482-500
ComposeRoute ==
  /\ cs.pc = "route"
  /\ cs' = [cs EXCEPT !.pc = "photos",
                      !.lines = @ \o RouteFragments(cs.route),
                      !.log = IF cs.route = "fail"
                              THEN Append(@, "route failed") ELSE @]
  /\ UNCHANGED notCs

\* lines 502-511
ComposePhotos ==
  /\ cs.pc = "photos"
  /\ cs' = IF Len(cs.photos) > 0
           THEN [cs EXCEPT !.pc = "photo", !.i = 0,
                           !.lines = Append(@, "PHOTOHDR")]
           ELSE [cs EXCEPT !.pc = "tail"]
  /\ UNCHANGED notCs

\* lines 513-519 and 563-571: one turn of the loop up to its fetch, or the
\* end of the loop; a null entry throws at photo.urls, outside the try
PhotoStart ==
  /\ cs.pc = "photo"
  /\ cs' =
       IF cs.i >= MaxPhotos(cs.photos)
       THEN [cs EXCEPT !.pc = "tail", !.lines = @ \o MoreFragments(cs.photos)]
       ELSE LET kind == cs.photos[cs.i + 1] IN
            CASE kind = "null" ->
                   [cs EXCEPT !.pc = "aborted", !.log = Append(@, "Print error")]
              [] kind = "nourl" -> [cs EXCEPT !.i = @ + 1]
              [] OTHER ->
                   [cs EXCEPT !.pc = "fetching", !.fetched = Append(@, cs.i)]
  /\ UNCHANGED notCs

\* lines 520-560: the fetch settles
PhotoAnswer ==
  /\ cs.pc = "fetching"
  /\ LET kind == cs.photos[cs.i + 1] IN
     /\ kind # "never"
     /\ cs' = [cs EXCEPT
                 !.pc = AfterPhoto(kind),
                 !.i = @ + 1,
                 !.lines = IF kind = "ok" THEN Append(@, "PHOTO") ELSE @,
                 !.rendered = IF kind = "ok" THEN Append(@, cs.i) ELSE @,
                 !.log = IF kind = "throw"
                         THEN Append(@, "Failed to process photo") ELSE @]
  /\ UNCHANGED notCs

\* lines 610-611: the stream joined and split at the markers
Composed(c) ==
  [c EXCEPT !.pc = "done",
            !.sections = SplitSections(ComposedContent(c.lines))]

\* lines 574-611
ComposeTail ==
  /\ cs.pc = "tail"
  /\ cs' = Composed([cs EXCEPT !.lines = @ \o TailFragments])
  /\ UNCHANGED notCs

ComposeNext ==
  \/ ComposeHead
  \/ ComposeLogo
  \/ ComposeRoute
  \/ ComposePhotos
  \/ PhotoStart
  \/ PhotoAnswer
  \/ ComposeTail

ComposeSpec == ComposeInit /\ [][ComposeNext]_vars

\* ------------------------------------------------------------ C11 .. C16

Count(lines, tag) == Cardinality({k \in 1..Len(lines) : lines[k] = tag})

\* the fragments of lines that belong to tags, in the order of lines
Only(lines, tags) ==
  LET Keep(t) == t \in tags IN SelectSeq(lines, Keep)

StrictlyIncreasing(s) == \A a, b \in 1..Len(s) : a < b => s[a] < s[b]

Range(s) == {s[k] : k \in 1..Len(s)}

\* the 0-based indices of the photos the loop has to fetch
ToFetch(photos) ==
  {k \in 0..(Len(photos) - 1) : k < 3 /\ photos[k + 1] # "nourl"}

\* C11: a failed logo, a failed route image or a failed photo never aborts
\* the receipt: the composition is only ever abandoned at a null photo entry,
\* and a finished stream holds every section in order, ends with footer and
\* cut, is split into sections for transmission, shows the placeholder for a
\* failed route, and has had every photo after a failed one fetched and, when
\* it decoded, rendered.
C11_ArtifactFailureDoesNotAbort ==
  /\ cs.pc = "aborted" =>
       /\ cs.i < Len(cs.photos)
       /\ cs.photos[cs.i + 1] = "null"
       /\ cs.i \notin Range(cs.fetched)
  /\ cs.pc = "done" =>
       /\ Only(cs.lines, {"TITLE", "LOCATION", "DATE", "STATS", "TOTALS",
                          "ROUTEHDR", "GRATUITY", "QR", "FOOTER", "CUT"})
            = <<"TITLE", "LOCATION", "DATE", "STATS", "TOTALS", "ROUTEHDR",
                "GRATUITY", "QR", "FOOTER", "CUT">>
       /\ cs.lines[Len(cs.lines)] = "CUT"
       /\ Len(cs.sections) >= 8
       /\ cs.sections[Len(cs.sections)] = <<"FOOTER", "INIT", "CUT">>
       /\ cs.route # "ok" =>
            Count(cs.lines, "PLACEHOLDER") = 1 /\ Count(cs.lines, "ROUTEIMG") = 0
       /\ Range(cs.fetched) = ToFetch(cs.photos)
       /\ Range(cs.rendered) = {k \in ToFetch(cs.photos) : cs.photos[k + 1] = "ok"}
       /\ Count(cs.lines, "PHOTO") = Len(cs.rendered)

\* logo, route and first photo fail, the second photo is still rendered
C11_Witness ==
  /\ cs.pc = "done"
  /\ cs.logo = "empty"
  /\ cs.route = "fail"
  /\ Len(cs.photos) = 2
  /\ cs.photos[1] = "throw"
  /\ cs.photos[2] = "ok"
  /\ cs.rendered = <<1>>
  /\ Count(cs.lines, "PLACEHOLDER") = 1

\* C12: a print job terminates even when a photo fetch or an image decode
\* never completes: the wait is bounded, so a job that waits for a photo
\* always has a step to take (the answer, or the timeout that stands for a
\* failed decode) and is never left waiting for good.
C12_FetchWaitIsBounded == cs.pc = "fetching" => ENABLED ComposeNext

\* C16: at most the first 3 photos are fetched and rendered, in list order;
\* a photo at index 3 or beyond is never fetched or rendered.
C16_FirstThreePhotosOnly ==
  /\ \A k \in Range(cs.fetched) \cup Range(cs.rendered) : k \in 0..2
  /\ StrictlyIncreasing(cs.fetched)
  /\ StrictlyIncreasing(cs.rendered)
  /\ Range(cs.rendered) \subseteq Range(cs.fetched)
  /\ Count(cs.lines, "PHOTO") = Len(cs.rendered)
  /\ Len(cs.rendered) <= 3
  /\ cs.pc = "done" => Range(cs.fetched) = ToFetch(cs.photos)

\* four photos that all decode: three rendered, the fourth announced only
C16_Witness ==
  /\ cs.pc = "done"
  /\ Len(cs.photos) = 4
  /\ \A k \in 1..4 : cs.photos[k] = "ok"
  /\ cs.fetched = <<0, 1, 2>>
  /\ cs.rendered = <<0, 1, 2>>
  /\ Count(cs.lines, "MORE") = 1

\* the receipt section a fragment belongs to
SectionOf(tag) ==
  CASE tag \in {"LOCATION", "DATE"} -> "LOCATION/DATE"
    [] tag \in {"ROUTEHDR", "ROUTEIMG", "PLACEHOLDER"} -> "ROUTE"
    [] tag \in {"PHOTOHDR", "PHOTO", "MORE"} -> "PHOTOS"
    [] OTHER -> tag

RECURSIVE SectionsOf(_)
\* the sections of a stream in order, a run of fragments of one section
\* counted once; every break marker counts
SectionsOf(lines) ==
  IF lines = <<>> THEN <<>>
  ELSE LET rest == SectionsOf(Tail(lines))
           sec == SectionOf(Head(lines))
       IN  IF rest # <<>> /\ Head(rest) = sec /\ sec # "BRK"
           THEN rest ELSE <<sec>> \o rest

\* what reaches the paper: the break markers are taken out before printing
Printed(lines) == Only(lines, Range(lines) \ {"BRK"})

Opt(present, sec) == IF present THEN <<sec>> ELSE <<>>

\* the section order as listed, DIVIDER being the dashed line
ListedOrders ==
  {<<"INIT">> \o Opt(logo, "LOGO")
     \o <<"TITLE", "LOCATION/DATE", "DIVIDER", "STATS", "DIVIDER", "TOTALS",
          "DIVIDER", "ROUTE", "DIVIDER">>
     \o Opt(photos, "PHOTOS")
     \o <<"DIVIDER", "GRATUITY", "DIVIDER">> \o Opt(qr, "QR")
     \o <<"FOOTER", "CUT">> : logo, photos, qr \in BOOLEAN}

\* the same list with the section-break marker read as the divider
ListedOrdersWithBreaks ==
  {<<"INIT">> \o Opt(logo, "LOGO")
     \o <<"TITLE", "LOCATION/DATE", "BRK", "STATS", "BRK", "TOTALS",
          "BRK", "ROUTE", "BRK">>
     \o Opt(photos, "PHOTOS")
     \o <<"BRK", "GRATUITY", "BRK">> \o Opt(qr, "QR")
     \o <<"FOOTER", "CUT">> : logo, photos, qr \in BOOLEAN}

\* the order of the compositor: BRK is the section-break marker, DIVIDER the
\* dashed line, the second INIT the re-initialisation before the cut
ComposedOrders ==
  {<<"INIT">> \o Opt(logo, "LOGO")
     \o <<"BRK", "TITLE", "BRK", "LOCATION/DATE", "BRK", "DIVIDER", "STATS",
          "DIVIDER", "TOTALS", "BRK", "ROUTE", "BRK">>
     \o Opt(photos, "PHOTOS")
     \o <<"BRK", "GRATUITY", "BRK", "QR", "BRK", "FOOTER", "INIT", "CUT">> :
     logo, photos \in BOOLEAN}

MaxWidth == 10
MaxHeight == 2

\* RGBA samples: white, black, the two greys next to the threshold, red, black
\* at the two alphas next to the epsilon, transparent black, white and red
PixelSamples ==
  {<<255, 255, 255, 255>>, <<0, 0, 0, 255>>, <<127, 127, 127, 255>>,
   <<128, 128, 128, 255>>, <<255, 0, 0, 255>>, <<0, 0, 0, 25>>,
   <<0, 0, 0, 26>>, <<0, 0, 0, 0>>, <<255, 255, 255, 0>>, <<255, 0, 0, 0>>}

\* image.bitmap: pixel fg at (fx, fy), pixel bg everywhere else
RasterInputs ==
  {r \in [pc : {"start"}, width : 1..MaxWidth, height : 1..MaxHeight,
          bg : PixelSamples, fg : PixelSamples, fx : 0..(MaxWidth - 1),
          fy : 0..(MaxHeight - 1), bytesPerRow : {0}, raster : {<<>>},
          command : {<<>>}] : r.fx < r.width /\ r.fy < r.height}

RasterInit == ServerOff /\ IdleBut({"rs"}) /\ rs \in RasterInputs

notRs == <<serverVars, cs, qs, gs, ps, bs, ts, ws, ls, ds>>

\* data[idx] of image.bitmap, idx counted from 0: four bytes per pixel, rows
\* first
DataAt(r, idx) ==
  LET p == idx \div 4
      x == p % r.width
      y == p \div r.width
      px == IF x = r.fx /\ y = r.fy THEN r.fg ELSE r.bg
  IN  px[(idx % 4) + 1]

\* Math.floor(width / 8)
BytesPerRowFloor(width) == width \div 8

\* Math.ceil(width / 8)
BytesPerRow(width) == (width + 7) \div 8

\* the darkness test alone
IsBlackNoAlpha(r, g, b, a) == 2126 * r + 7152 * g + 722 * b < 1275000

\* lum = 0.2126 r/255 + 0.7152 g/255 + 0.0722 b/255;
\* isBlack = (1 - lum) > 0.5 && a/255 > 0.1, in units of 1/2550000 and 1/2550
IsBlack(r, g, b, a) ==
  /\ 2126 * r + 7152 * g + 722 * b < 1275000
  /\ 10 * a > 255

\* x & 7: the least significant bit first
BitOfLsb(x) == x % 8

\* 7 - (x & 7)
BitOf(x) == 7 - (x % 8)

Pow2(n) == IF n = 0 THEN 1 ELSE IF n = 1 THEN 2 ELSE IF n = 2 THEN 4
           ELSE IF n = 3 THEN 8 ELSE IF n = 4 THEN 16 ELSE IF n = 5 THEN 32
           ELSE IF n = 6 THEN 64 ELSE 128

\* byte |= (1 << bit)
BitOr(byte, bit) ==
  IF (byte \div Pow2(bit)) % 2 = 1 THEN byte ELSE byte + Pow2(bit)

RECURSIVE RasterLoop(_, _, _)
\* the two nested loops, pixel p = y * width + x onward; a write beyond the
\* end of a Uint8Array is dropped
RasterLoop(r, raster, p) ==
  IF p >= r.width * r.height THEN raster
  ELSE LET x == p % r.width
           y == p \div r.width
           idx == (y * r.width + x) * 4
           byteIndex == y * BytesPerRow(r.width) + (x \div 8)
           black == IsBlack(DataAt(r, idx), DataAt(r, idx + 1),
                            DataAt(r, idx + 2), DataAt(r, idx + 3))
       IN  RasterLoop(r,
                      IF black /\ byteIndex + 1 \in DOMAIN raster
                      THEN [raster EXCEPT
                              ![byteIndex + 1] = BitOr(@, BitOf(x))]
                      ELSE raster,
                      p + 1)

\* new Uint8Array(bytesPerRow * height), then the loops
Raster(r) ==
  RasterLoop(r, [k \in 1..(BytesPerRow(r.width) * r.height) |-> 0], 0)

\* buildRasterImageCommand(bytesPerRow, height, raster, 0)
buildRasterImageCommand(bitmapBytesPerRow, height, rasterData, rmode) ==
  <<29, 118, 48, rmode,
    bitmapBytesPerRow % 256, (bitmapBytesPerRow \div 256) % 256,
    height % 256, (height \div 256) % 256>> \o rasterData

\* lines 198-218: one image encoded
EncodeRaster ==
  /\ rs.pc = "start"
  /\ rs' = [rs EXCEPT
              !.pc = "done",
              !.bytesPerRow = BytesPerRow(rs.width),
              !.raster = Raster(rs),
              !.command = buildRasterImageCommand(BytesPerRow(rs.width),
                                                  rs.height, Raster(rs), 0)]
  /\ UNCHANGED notRs

RasterNext == EncodeRaster

RasterSpec == RasterInit /\ [][RasterNext]_vars

\* ------------------------------------------------------------ C17 .. C19

\* bit `bit` of a byte
BitAt(byte, bit) == (byte \div Pow2(bit)) % 2

\* the bit of column x, row y in a raster of `bpr` bytes per row, column 0 in
\* the most significant bit of the row's first byte
RasterBit(raster, bpr, x, y) == BitAt(raster[y * bpr + (x \div 8) + 1], 7 - (x % 8))

White == <<255, 255, 255, 255>>
Black == <<0, 0, 0, 255>>

\* C17: for every image of width >= 1 and height >= 1, bytesPerRow is
\* ceil(width / 8), the least number of bytes that hold width bits, and the
\* raster payload is bytesPerRow * height bytes long.
C17_RasterSize ==
  rs.pc = "done" =>
    /\ rs.width >= 1 /\ rs.height >= 1
    /\ 8 * rs.bytesPerRow >= rs.width
    /\ 8 * (rs.bytesPerRow - 1) < rs.width
    /\ Len(rs.raster) = rs.bytesPerRow * rs.height
    /\ Len(rs.command) - 8 = rs.bytesPerRow * rs.height

\* a 9 x 2 image: two bytes per row, four bytes of payload
C17_Witness ==
  /\ rs.pc = "done"
  /\ rs.width = 9
  /\ rs.height = 2
  /\ rs.bytesPerRow = 2
  /\ Len(rs.raster) = 4

\* C18: an all-white opaque image gives all-zero bytes, an all-black opaque
\* image sets every used bit; pixel x of a row is bit 7 - (x mod 8) of byte
\* floor(x / 8) of the row, and the padding bits of a row's last byte are 0.
C18_MsbFirstPacking ==
  rs.pc = "done" =>
    /\ (rs.bg = White /\ rs.fg = White) =>
         \A k \in 1..Len(rs.raster) : rs.raster[k] = 0
    /\ (rs.bg = Black /\ rs.fg = Black) =>
         \A x \in 0..(rs.width - 1), y \in 0..(rs.height - 1) :
           RasterBit(rs.raster, rs.bytesPerRow, x, y) = 1
    /\ (rs.bg = White /\ rs.fg = Black) =>
         \A k \in 1..Len(rs.raster) :
           rs.raster[k] = IF k = rs.fy * rs.bytesPerRow + (rs.fx \div 8) + 1
                          THEN Pow2(7 - (rs.fx % 8)) ELSE 0
    /\ \A y \in 0..(rs.height - 1), x \in rs.width..(8 * rs.bytesPerRow - 1) :
         RasterBit(rs.raster, rs.bytesPerRow, x, y) = 0

\* one black pixel in column 9 of a white 10-pixel row: 0x40 in the second
\* byte of its row
C18_Witness ==
  /\ rs.pc = "done"
  /\ rs.width = 10
  /\ rs.bg = White
  /\ rs.fg = Black
  /\ rs.fx = 9
  /\ rs.fy = 1
  /\ rs.raster = <<0, 0, 0, 64>>

\* C19: a fully transparent image gives an all-zero raster whatever its RGB
\* values are; a pixel is ink only when it is dark and its alpha is above the
\* epsilon of 0.1 (an alpha byte of 26 or more).
C19_AlphaGating ==
  rs.pc = "done" =>
    /\ (rs.bg[4] = 0 /\ rs.fg[4] = 0) =>
         \A k \in 1..Len(rs.raster) : rs.raster[k] = 0
    /\ \A x \in 0..(rs.width - 1), y \in 0..(rs.height - 1) :
         LET px == IF x = rs.fx /\ y = rs.fy THEN rs.fg ELSE rs.bg IN
         /\ px[4] <= 25 => RasterBit(rs.raster, rs.bytesPerRow, x, y) = 0
         /\ px[1] >= 128 /\ px[2] >= 128 /\ px[3] >= 128 =>
              RasterBit(rs.raster, rs.bytesPerRow, x, y) = 0
         /\ px = <<0, 0, 0, 26>> => RasterBit(rs.raster, rs.bytesPerRow, x, y) = 1

\* a transparent black image with one transparent red pixel: nothing printed
C19_Witness ==
  /\ rs.pc = "done"
  /\ rs.width = 9
  /\ rs.bg = <<0, 0, 0, 0>>
  /\ rs.fg = <<255, 0, 0, 0>>
  /\ rs.raster = <<0, 0, 0, 0>>

\* ------------------------------------------------------------ QR framer

\* longest QR data, in characters
MaxQRChars == 200

\* code points of the data: '/', e acute (2 bytes in UTF-8), the euro sign
\* (3 bytes)
QRChars == {47, 233, 8364}

\* String(data): n times one character, then another one
QRInputs ==
  {[NoQR EXCEPT !.pc = "start",
                !.data = [k \in 1..(n + 1) |-> IF k <= n THEN a ELSE b]] :
     n \in 0..(MaxQRChars - 1), a \in QRChars, b \in QRChars}

QRInit == ServerOff /\ IdleBut({"qs"}) /\ qs \in QRInputs

notQs == <<serverVars, cs, rs, gs, ps, bs, ts, ws, ls, ds>>

\* the UTF-8 bytes of a code point of the basic plane
Utf8(cp) ==
  IF cp < 128 THEN <<cp>>
  ELSE IF cp < 2048 THEN <<192 + (cp \div 64), 128 + (cp % 64)>>
  ELSE <<224 + (cp \div 4096), 128 + ((cp \div 64) % 64), 128 + (cp % 64)>>

RECURSIVE Utf8From(_, _, _)
\* the UTF-8 bytes of the characters lo..hi of data, the halves one after
\* the other
Utf8From(data, lo, hi) ==
  IF lo > hi THEN <<>>
  ELSE IF lo = hi THEN Utf8(data[lo])
  ELSE LET mid == (lo + hi) \div 2
       IN  Utf8From(data, lo, mid) \o Utf8From(data, mid + 1, hi)

\* Buffer.from(String(data), 'utf8').toString('binary'): one character per
\* byte of the UTF-8 encoding
Payload(data) == Utf8From(data, 1, Len(data))

\* the length of the payload alone
LengthFieldPayloadOnly(len) == len

\* payload.length + 3: the payload and the bytes cn, fn, m before it
LengthField(len) == len + 3

\* store = GS ( k pL pH 0x31 0x50 0x30 payload
Store(payload) ==
  <<29, 40, 107,
    LengthField(Len(payload)) % 256, (LengthField(Len(payload)) \div 256) % 256,
    49, 80, 48>> \o payload

\* lines 346-356, with moduleSize 5 and ecLevel '1':
\* model + size + ec + store + print
buildEpsonQR(data) ==
  <<29, 40, 107, 4, 0, 49, 65, 50, 0>>
  \o <<29, 40, 107, 3, 0, 49, 67, 5>>
  \o <<29, 40, 107, 3, 0, 49, 69, 49>>
  \o Store(Payload(data))
  \o <<29, 40, 107, 3, 0, 49, 81, 48>>

FrameQR ==
  /\ qs.pc = "start"
  /\ qs' = [qs EXCEPT !.pc = "done",
                      !.payload = Payload(qs.data),
                      !.store = Store(Payload(qs.data)),
                      !.command = buildEpsonQR(qs.data)]
  /\ UNCHANGED notQs

QRNext == FrameQR

QRSpec == QRInit /\ [][QRNext]_vars

\* ------------------------------------------------------------ C20

\* C20: for every payload of 1 to 200 bytes the length field of the store
\* sub-command, pL + 256 * pH, is the payload's byte length + 3, and the
\* payload bytes follow the field (after cn, fn, m) unchanged.
C20_QRLengthField ==
  (qs.pc = "done" /\ Len(qs.payload) \in 1..200) =>
    /\ qs.store[4] + 256 * qs.store[5] = Len(qs.payload) + 3
    /\ qs.store[4] \in 0..255 /\ qs.store[5] \in 0..255
    /\ Len(qs.store) = 8 + Len(qs.payload)
    /\ \A k \in 1..Len(qs.payload) : qs.store[8 + k] = qs.payload[k]
    /\ (\A k \in 1..Len(qs.data) : qs.data[k] < 128) => qs.payload = qs.data
    /\ Len(qs.payload) >= Len(qs.data)
    /\ SubSeq(qs.command, 26, 25 + Len(qs.store)) = qs.store

\* a payload of exactly 200 bytes: field 203
C20_Witness ==
  /\ qs.pc = "done"
  /\ Len(qs.payload) = 200
  /\ qs.store[4] = 203
  /\ qs.store[5] = 0
  /\ qs.store[208] = 47

\* ------------------------------------------------------------ C24

FilesOf(j) == {f \in files : f.job = j}

\* C24: a job is transmitted single-shot (one spool file with the whole
\* stream, every break marker removed, one submission) when the delay of the
\* pacing mode is 0 or the stream has a single section, and paced (one spool
\* file and one submission per section) otherwise; never both.
C24_SingleShotOrPaced ==
  \A j \in Jobs :
    path[j] # "none" =>
      /\ path[j] \in {"single", "paced"}
      /\ path[j] = "single" <=> (mode = "off" \/ Len(sections[j]) = 1)
      /\ path[j] = "single" =>
           /\ Len(SubsOf(j)) <= 1
           /\ \A f \in FilesOf(j) : f.name.kind = "activity"
           /\ \A k \in 1..Len(SubsOf(j)) :
                /\ SubsOf(j)[k].file.kind = "activity"
                /\ SubsOf(j)[k].content = Join(sections[j])
                /\ IndexOf(SubsOf(j)[k].content, SECTION_BREAK) = 0
           /\ (faults = 0 /\ pc[j] = "done") => Len(SubsOf(j)) = 1
      /\ path[j] = "paced" =>
           /\ Len(SubsOf(j)) <= Len(sections[j])
           /\ \A f \in FilesOf(j) : f.name.kind = "section"
           /\ \A k \in 1..Len(SubsOf(j)) :
                /\ SubsOf(j)[k].file.kind = "section"
                /\ SubsOf(j)[k].index = k - 1
                /\ SubsOf(j)[k].content = sections[j][k]
           /\ (faults = 0 /\ chain[j] = "done") =>
                Len(SubsOf(j)) = Len(sections[j])

\* a stream of four sections goes out in one file in mode off
C24_Witness ==
  \E j \in Jobs :
    /\ mode = "off"
    /\ path[j] = "single"
    /\ input[j].breaks = 3
    /\ Len(sections[j]) = 4
    /\ Len(SubsOf(j)) = 1
    /\ Len(SubsOf(j)[1].content) = 4

\* ------------------------------------------------------------ route renderer
\* The route block of the compositor (lines 482-496) and
\* buildGPSRouteRasterString (lines 225-344).  Coordinates are whole numbers
\* of a grid unit; projected coordinates are exact fractions [n, d], and d =
\* 0 is the NaN that 0 / 0 gives.

\* most points of a route
MaxRoutePoints == 3
\* largest coordinate, in grid units
MaxCoord == 2

svgWidth == 400
svgHeight == 300

RoutePoints == [lat : 0..MaxCoord, lng : 0..MaxCoord]

\* the route argument; <<>> also stands for null
Routes == UNION {[1..n -> RoutePoints] : n \in 0..MaxRoutePoints}

\* tools: sharp and jimp are installed
RouteRuns ==
  {[NoRoute EXCEPT !.pc = "start", !.route = r, !.tools = t] :
     r \in Routes, t \in BOOLEAN}

RouteInit == ServerOff /\ IdleBut({"gs"}) /\ gs \in RouteRuns

notGs == <<serverVars, cs, rs, qs, ps, bs, ts, ws, ls, ds>>

SetMax(S) == CHOOSE x \in S : \A y \in S : y <= x

Lats(route) == {route[k].lat : k \in 1..Len(route)}
Lngs(route) == {route[k].lng : k \in 1..Len(route)}

\* ten times the padding: Math.max(latRange, lngRange) * 0.1
Padding10(route) ==
  LET latRange == SetMax(Lats(route)) - SetMin(Lats(route))
      lngRange == SetMax(Lngs(route)) - SetMin(Lngs(route))
  IN  IF latRange > lngRange THEN latRange ELSE lngRange

\* ten times minLat, maxLat, minLng, maxLng after lines 263-266
MinLat10(route) == 10 * SetMin(Lats(route)) - Padding10(route)
MaxLat10(route) == 10 * SetMax(Lats(route)) + Padding10(route)
MinLng10(route) == 10 * SetMin(Lngs(route)) - Padding10(route)
MaxLng10(route) == 10 * SetMax(Lngs(route)) + Padding10(route)

\* ((point.lng - minLng) / (maxLng - minLng)) * svgWidth
ProjectX(route, point) ==
  [n |-> (10 * point.lng - MinLng10(route)) * svgWidth,
   d |-> MaxLng10(route) - MinLng10(route)]

\* the projection without the flip
ProjectYNoFlip(route, point) ==
  [n |-> (10 * point.lat - MinLat10(route)) * svgHeight,
   d |-> MaxLat10(route) - MinLat10(route)]

\* svgHeight - ((point.lat - minLat) / (maxLat - minLat)) * svgHeight
ProjectY(route, point) ==
  [n |-> svgHeight * (MaxLat10(route) - MinLat10(route))
           - (10 * point.lat - MinLat10(route)) * svgHeight,
   d |-> MaxLat10(route) - MinLat10(route)]

\* the points of pathData, in order
PathData(route) ==
  [k \in 1..Len(route) |->
     [x |-> ProjectX(route, route[k]), y |-> ProjectY(route, route[k])]]

IsNaN(q) == q.d = 0

\* route && Array.isArray(route) && route.length > 1
RouteGiven(route) == Len(route) > 1

\* what the compositor pushes for the string the builder returned
RouteKind(result) == IF result = "raster" THEN "ok" ELSE "fail"

\* lines 482-484 and 494-496: the builder is called for a route of two or
\* more points, the placeholder pushed otherwise
RouteBlock ==
  /\ gs.pc = "start"
  /\ gs' = IF RouteGiven(gs.route)
           THEN [gs EXCEPT !.pc = "builder"]
           ELSE [gs EXCEPT !.pc = "done", !.fragments = RouteFragments("null")]
  /\ UNCHANGED notGs

\* lines 226-276: the guards, the bounding box and the projection
BuilderProject ==
  /\ gs.pc = "builder"
  /\ gs' = IF Len(gs.route) < 2 \/ ~gs.tools
           THEN [gs EXCEPT !.pc = "returned", !.result = ""]
           ELSE [gs EXCEPT !.pc = "render", !.path = PathData(gs.route)]
  /\ UNCHANGED notGs

\* lines 278-343: the svg is rendered by sharp, decoded and packed; an
\* exception anywhere gives ''.  The renderer is not this program's: given
\* a path of NaN it may draw nothing and return the blank canvas, or throw.
BuilderRender(rendered) ==
  /\ gs.pc = "render"
  /\ gs' = [gs EXCEPT !.pc = "returned",
                      !.result = IF rendered THEN "raster" ELSE ""]
  /\ UNCHANGED notGs

\* lines 485-493
RoutePush ==
  /\ gs.pc = "returned"
  /\ gs' = [gs EXCEPT !.pc = "done",
                      !.fragments = RouteFragments(RouteKind(gs.result))]
  /\ UNCHANGED notGs

RouteNext ==
  \/ RouteBlock
  \/ BuilderProject
  \/ \E rendered \in BOOLEAN : BuilderRender(rendered)
  \/ RoutePush

RouteSpec == RouteInit /\ [][RouteNext]_vars

\* ------------------------------------------------------------ C21, C22

\* all points at one place: a bounding box without extent
ZeroExtent(route) ==
  Len(route) >= 2 /\ Cardinality(Lats(route)) = 1 /\ Cardinality(Lngs(route)) = 1

\* C21: a route of fewer than 2 points or with a zero-extent bounding box
\* yields no route image and no crash: the compositor pushes the placeholder
\* line, not a raster block.
C21_DegenerateRoutePlaceholder ==
  (gs.pc = "done" /\ (Len(gs.route) < 2 \/ ZeroExtent(gs.route))) =>
    /\ Count(gs.fragments, "PLACEHOLDER") = 1
    /\ Count(gs.fragments, "ROUTEIMG") = 0

Less(p, q) == p.n * q.d < q.n * p.d

\* C22: for a route with nonzero latitude spread the projected y of a
\* northernmost point is strictly less than that of a southernmost point,
\* and every projected point lies in the canvas: 0 <= x <= 400, 0 <= y <= 300.
C22_NorthIsUp ==
  (gs.pc \in {"render", "returned", "done"} /\ gs.path # <<>>
   /\ Cardinality(Lats(gs.route)) > 1) =>
    /\ Len(gs.path) = Len(gs.route)
    /\ \A a, b \in 1..Len(gs.route) :
         gs.route[a].lat > gs.route[b].lat => Less(gs.path[a].y, gs.path[b].y)
    /\ \A k \in 1..Len(gs.path) :
         /\ gs.path[k].x.d > 0 /\ gs.path[k].y.d > 0
         /\ 0 <= gs.path[k].x.n /\ gs.path[k].x.n <= 400 * gs.path[k].x.d
         /\ 0 <= gs.path[k].y.n /\ gs.path[k].y.n <= 300 * gs.path[k].y.d

\* a route going north along one meridian, rendered
C22_Witness ==
  /\ gs.pc = "done"
  /\ gs.result = "raster"
  /\ Len(gs.route) = 3
  /\ gs.route[1].lat < gs.route[2].lat
  /\ gs.route[2].lat < gs.route[3].lat
  /\ Cardinality(Lngs(gs.route)) = 1
  /\ Less(gs.path[3].y, gs.path[1].y)

\* ------------------------------------------------------------ pace
\* The pace lines of the compositor (lines 438-445).  distanceMiles is a
\* whole number of tenths of a mile and movingTime a whole number of
\* seconds, so that minutes and seconds per mile are exact fractions.

\* largest distance, in tenths of a mile
MaxTenths == 30
\* largest moving time, in seconds
MaxSeconds == 180

PaceInputs ==
  {[NoPace EXCEPT !.pc = "start", !.distance10 = d, !.movingTime = t] :
     d \in 0..MaxTenths, t \in 0..MaxSeconds}

PaceInit == ServerOff /\ IdleBut({"ps"}) /\ ps \in PaceInputs

notPs == <<serverVars, cs, rs, qs, gs, bs, ts, ws, ls, ds>>

\* Number.prototype.toString of a whole number: its decimal digits
RECURSIVE Digits(_)
Digits(n) == IF n < 10 THEN <<n>> ELSE Append(Digits(n \div 10), n % 10)

\* String.prototype.padStart: fill is put in front up to length n
RECURSIVE padStart(_, _, _)
padStart(s, n, fill) == IF Len(s) >= n THEN s ELSE padStart(<<fill>> \o s, n, fill)

\* Math.floor(movingTime / 60 / distanceMiles)
PaceMin(distance10, movingTime) == movingTime \div (6 * distance10)

\* Math.round((paceMinutes - paceMin) * 60): the fraction of a minute is
\* (movingTime mod 6*distance10) / (6*distance10)
PaceSec(distance10, movingTime) ==
  (20 * (movingTime % (6 * distance10)) + distance10) \div (2 * distance10)

\* lines 438-445: 'N/A', or <paceMin>:<paceSec padded to two> min/mi
FormatPace ==
  /\ ps.pc = "start"
  /\ ps' = [ps EXCEPT
       !.pc = "done",
       !.paceStr =
         IF ps.distance10 > 0 /\ ps.movingTime # 0
         THEN [na |-> FALSE,
               min |-> Digits(PaceMin(ps.distance10, ps.movingTime)),
               sec |-> padStart(Digits(PaceSec(ps.distance10, ps.movingTime)), 2, 0)]
         ELSE [na |-> TRUE, min |-> <<>>, sec |-> <<>>]]
  /\ UNCHANGED notPs

PaceNext == FormatPace

PaceSpec == PaceInit /\ [][PaceNext]_vars

\* C23: for every positive distance and moving time the pace is M:SS min/mi
\* with SS two digits standing for a value from 00 to 59.
C23_PaceSecondsBelowSixty ==
  (ps.pc = "done" /\ ps.distance10 > 0 /\ ps.movingTime > 0) =>
    /\ ~ps.paceStr.na
    /\ Len(ps.paceStr.min) >= 1
    /\ Len(ps.paceStr.sec) = 2
    /\ 10 * ps.paceStr.sec[1] + ps.paceStr.sec[2] \in 0..59

\* ------------------------------------------------------------ raster command, spooled
\* buildRasterImageCommand and bytesToBinaryString (lines 160-178), the
\* command joined into the stream (lines 382-390, 608-611) and the stream
\* written to the spool (lines 664, 691).  Strings are sequences of code
\* units, files sequences of bytes.

Bytes == 0..255

\* the code units of SECTION_BREAK
BreakCodes == <<60, 60, 60, 83, 69, 67, 84, 73, 79, 78, 62, 62, 62>>

\* row widths and row counts below 65536
DimSamples == {1, 2, 255, 256, 257, 4660, 65535}

\* packed rows: every byte value alone, and rows whose bits happen to be
\* the code units of the marker
RasterDataSamples ==
  {<<b>> : b \in Bytes} \cup {BreakCodes, <<0>> \o BreakCodes \o <<255>>}

FrameInputs ==
  {[NoFrame EXCEPT !.pc = "start", !.bytesPerRow = w, !.height = h,
                   !.rasterData = d, !.printDelay = p] :
     w \in DimSamples, h \in DimSamples, d \in RasterDataSamples,
     p \in {0, 1}}

FrameInit == ServerOff /\ IdleBut({"bs"}) /\ bs \in FrameInputs

notBs == <<serverVars, cs, rs, qs, gs, ps, ts, ws, ls, ds>>

\* String.fromCharCode(byteArray[i]) for each byte: one code unit per byte
bytesToBinaryString(byteArray) == byteArray

\* Buffer.from(string, 'binary'): the low byte of every code unit
BufferFromBinary(s) == [k \in 1..Len(s) |-> s[k] % 256]

\* INIT, ESC 2, ALIGN_LEFT, FONT_A, NORMAL_SIZE, FEED(2), then ALIGN_CENTER
\* before the image
BeforeImage ==
  <<27, 64, 27, 50, 27, 97, 0, 27, 77, 0, 27, 33, 0, 27, 100, 2, 27, 97, 1>>

\* ALIGN_LEFT, '\n' after the image
AfterImage == <<27, 97, 0, 10>>

\* FEED(2), INIT, FULL_CUT_N3
EndOfStream == <<27, 100, 2, 27, 64, 29, 86, 66, 3>>

\* lines 168-178
FrameCommand ==
  /\ bs.pc = "start"
  /\ bs' = [bs EXCEPT
       !.pc = "framed",
       !.command = bytesToBinaryString(
          buildRasterImageCommand(bs.bytesPerRow, bs.height, bs.rasterData, 0))]
  /\ UNCHANGED notBs

\* lines 382-390 and 608-610: the image block, a section break, the end of
\* the stream, joined
JoinStream ==
  /\ bs.pc = "framed"
  /\ bs' = [bs EXCEPT
       !.pc = "joined",
       !.fullContent =
          Join(<<BeforeImage, bs.command, AfterImage, BreakCodes, EndOfStream>>)]
  /\ UNCHANGED notBs

\* lines 611, 651-664: one file per section
SpoolSections ==
  /\ bs.pc = "joined"
  /\ LET secs == SelectSeq(Split(bs.fullContent, BreakCodes), NonEmpty)
     IN  /\ UsePaced(bs.printDelay, secs)
         /\ bs' = [bs EXCEPT
              !.pc = "done",
              !.spooled = [k \in 1..Len(secs) |-> BufferFromBinary(secs[k])]]
  /\ UNCHANGED notBs

\* lines 686-691: one file, the markers replaced by ''
SpoolWhole ==
  /\ bs.pc = "joined"
  /\ LET secs == SelectSeq(Split(bs.fullContent, BreakCodes), NonEmpty)
     IN  /\ ~UsePaced(bs.printDelay, secs)
         /\ bs' = [bs EXCEPT
              !.pc = "done",
              !.spooled = <<BufferFromBinary(RemoveAll(bs.fullContent, BreakCodes))>>]
  /\ UNCHANGED notBs

FrameNext ==
  \/ FrameCommand
  \/ JoinStream
  \/ SpoolSections
  \/ SpoolWhole

FrameSpec == FrameInit /\ [][FrameNext]_vars

\* C25: the command is the 8-byte header 1D 76 30 mode xL xH yL yH followed
\* by the payload; for bytesPerRow and height below 65536 xL + 256 xH and
\* yL + 256 yH are the inputs, and the spooled bytes hold header and payload
\* unchanged between the bytes pushed before and after the image.
C25_RasterBytesReachSpool ==
  bs.pc = "done" =>
    LET out == Join(bs.spooled)
        at  == Len(BeforeImage)
        n   == Len(bs.rasterData)
    IN  /\ Len(bs.command) = 8 + n
        /\ SubSeq(bs.command, 1, 4) = <<29, 118, 48, 0>>
        /\ bs.command[5] + 256 * bs.command[6] = bs.bytesPerRow
        /\ bs.command[7] + 256 * bs.command[8] = bs.height
        /\ Len(out) = at + 8 + n + Len(AfterImage) + Len(EndOfStream)
        /\ SubSeq(out, at + 1, at + 8) = SubSeq(bs.command, 1, 8)
        /\ SubSeq(out, at + 9, at + 8 + n) = bs.rasterData

\* ------------------------------------------------------------ threeCol
\* The three-column helper (lines 111-117), as the stat and totals lines
\* call it (lines 430, 435, 461).

LINE_WIDTH == 48

\* widths = [8, 24, 12]
ColWidths == <<8, 24, 12>>

\* how many characters a value may be longer than its column
MaxOverflow == 1

Repeat(c, n) == [k \in 1..n |-> c]

\* a value of every length from '' to one that does not fit
ColInputs ==
  {[NoCols EXCEPT !.pc = "start", !.col1 = Repeat("1", a),
                  !.col2 = Repeat("T", b), !.col3 = Repeat("9", c)] :
     a \in 0..(ColWidths[1] + MaxOverflow),
     b \in 0..(ColWidths[2] + MaxOverflow),
     c \in 0..(ColWidths[3] + MaxOverflow)}

ColInit == ServerOff /\ IdleBut({"ts"}) /\ ts \in ColInputs

notTs == <<serverVars, cs, rs, qs, gs, ps, bs, ws, ls, ds>>

\* String.prototype.padEnd: fill is put behind up to length n
RECURSIVE padEnd(_, _, _)
padEnd(s, n, fill) == IF Len(s) >= n THEN s ELSE padEnd(Append(s, fill), n, fill)

\* the helper with column 1 filled behind the value
threeColRightPadded(col1, col2, col3, widths) ==
  padEnd(col1, widths[1], " ") \o <<" ">> \o padEnd(col2, widths[2], " ")
    \o <<" ">> \o padStart(col3, widths[3], " ")

\* c1 = padStart(w1), c2 = padEnd(w2), c3 = padStart(w3); c1 + ' ' + c2 + ' ' + c3
threeCol(col1, col2, col3, widths) ==
  padStart(col1, widths[1], " ") \o <<" ">> \o padEnd(col2, widths[2], " ")
    \o <<" ">> \o padStart(col3, widths[3], " ")

LayOut ==
  /\ ts.pc = "start"
  /\ ts' = [ts EXCEPT !.pc = "done",
                      !.line = threeCol(ts.col1, ts.col2, ts.col3, ColWidths)]
  /\ UNCHANGED notTs

ColNext == LayOut

ColSpec == ColInit /\ [][ColNext]_vars

\* ------------------------------------------------------------ C26

Fits(t) ==
  /\ Len(t.col1) <= ColWidths[1]
  /\ Len(t.col2) <= ColWidths[2]
  /\ Len(t.col3) <= ColWidths[3]

\* the columns of a laid out line
Col1Of(line) == SubSeq(line, 1, ColWidths[1])
Col2Of(line) == SubSeq(line, ColWidths[1] + 2, ColWidths[1] + 1 + ColWidths[2])
Col3Of(line) ==
  SubSeq(line, ColWidths[1] + ColWidths[2] + 3,
         ColWidths[1] + ColWidths[2] + ColWidths[3] + 2)

ConstantLength(t) ==
  /\ Len(t.line) = ColWidths[1] + ColWidths[2] + ColWidths[3] + 2
  /\ Len(t.line) <= LINE_WIDTH

\* C26 as stated: column 1 is right-padded (the value, then spaces) and
\* column 3 left-padded (spaces, then the value), so a line whose values fit
\* has a constant length of at most 48.
C26_Col1RightPadded ==
  (ts.pc = "done" /\ Fits(ts)) =>
    /\ Col1Of(ts.line) = ts.col1 \o Repeat(" ", ColWidths[1] - Len(ts.col1))
    /\ Col3Of(ts.line) = Repeat(" ", ColWidths[3] - Len(ts.col3)) \o ts.col3
    /\ ConstantLength(ts)

\* C26 amended: columns 1 and 3 are left-padded (spaces, then the value),
\* column 2 is right-padded, one space stands between the columns, and a
\* line whose values fit has the constant length 46, below the line width.
C26_Col1LeftPadded ==
  (ts.pc = "done" /\ Fits(ts)) =>
    /\ Col1Of(ts.line) = Repeat(" ", ColWidths[1] - Len(ts.col1)) \o ts.col1
    /\ Col2Of(ts.line) = ts.col2 \o Repeat(" ", ColWidths[2] - Len(ts.col2))
    /\ Col3Of(ts.line) = Repeat(" ", ColWidths[3] - Len(ts.col3)) \o ts.col3
    /\ ts.line[ColWidths[1] + 1] = " "
    /\ ts.line[ColWidths[1] + ColWidths[2] + 2] = " "
    /\ ConstantLength(ts)

\* the line of one activity: '1', a type, a distance such as 3.11
C26_Witness ==
  /\ ts.pc = "done"
  /\ Len(ts.col1) = 1
  /\ Len(ts.col2) = 3
  /\ Len(ts.col3) = 4
  /\ ts.line[ColWidths[1]] = "1"
  /\ Len(ts.line) = 46

\* ------------------------------------------------------------ wrapText
\* The word-wrapping helper (lines 119-140).

\* longest text
MaxTextLen == 6
\* largest width
MaxWrapWidth == 4

WhiteSpace == {" ", "\n"}
TextChars == {"a", "b"} \cup WhiteSpace

Texts == UNION {[1..n -> TextChars] : n \in 0..MaxTextLen}

WrapInputs ==
  {[NoWrap EXCEPT !.pc = "start", !.text = t, !.width = w] :
     t \in Texts, w \in 1..MaxWrapWidth}

WrapInit == ServerOff /\ IdleBut({"ws"}) /\ ws \in WrapInputs

notWs == <<serverVars, cs, rs, qs, gs, ps, bs, ts, ls, ds>>

RECURSIVE DropWhiteSpace(_)
DropWhiteSpace(text) ==
  IF text # <<>> /\ Head(text) \in WhiteSpace
  THEN DropWhiteSpace(Tail(text)) ELSE text

\* String(text).split(/\s+/): the pieces between runs of white space, the
\* empty piece before a leading and after a trailing run included
RECURSIVE SplitWhiteSpace(_, _)
SplitWhiteSpace(text, word) ==
  IF text = <<>> THEN <<word>>
  ELSE IF Head(text) \in WhiteSpace
       THEN <<word>> \o SplitWhiteSpace(DropWhiteSpace(text), <<>>)
       ELSE SplitWhiteSpace(Tail(text), Append(word, Head(text)))

\* line + (line ? ' ' : '') + w
Glue(line, w) == IF line # <<>> THEN line \o <<" ">> \o w ELSE w

\* the test of line 124 with < for <=
FitsLineStrict(line, w, width) == Len(Glue(line, w)) < width

\* (line + (line ? ' ' : '') + w).length <= width
FitsLine(line, w, width) == Len(Glue(line, w)) <= width

\* w.slice(i, i + width) for i = 0, width, 2 * width, ...
RECURSIVE Chunks(_, _)
Chunks(w, width) ==
  IF Len(w) <= width THEN <<w>>
  ELSE <<SubSeq(w, 1, width)>> \o Chunks(SubSeq(w, width + 1, Len(w)), width)

\* if (line) lines.push(line)
PushLine(lines, line) == IF line # <<>> THEN Append(lines, line) ELSE lines

\* the loop of lines 123-138 over the words that are left
RECURSIVE WrapLoop(_, _, _, _)
WrapLoop(words, lines, line, width) ==
  IF words = <<>> THEN PushLine(lines, line)
  ELSE LET w == Head(words)
       IN  IF FitsLine(line, w, width)
           THEN WrapLoop(Tail(words), lines, Glue(line, w), width)
           ELSE IF Len(w) > width
                THEN WrapLoop(Tail(words),
                              PushLine(lines, line) \o Chunks(w, width),
                              <<>>, width)
                ELSE WrapLoop(Tail(words), PushLine(lines, line), w, width)

wrapText(text, width) == WrapLoop(SplitWhiteSpace(text, <<>>), <<>>, <<>>, width)

Wrap ==
  /\ ws.pc = "start"
  /\ ws' = [ws EXCEPT !.pc = "done", !.lines = wrapText(ws.text, ws.width)]
  /\ UNCHANGED notWs

WrapNext == Wrap

WrapSpec == WrapInit /\ [][WrapNext]_vars

\* ------------------------------------------------------------ C27

IsInk(c) == c \notin WhiteSpace

\* a string with its white space removed
Ink(s) == SelectSeq(s, IsInk)

\* the words of a text: maximal runs of characters that are not white
\* space, as the end positions of the runs in Ink(text)
WordEnds(text) ==
  {Len(Ink(SubSeq(text, 1, i))) : i \in {k \in 1..Len(text) :
     /\ text[k] \notin WhiteSpace
     /\ (k = Len(text) \/ text[k + 1] \in WhiteSpace)}}

WordStarts(text) ==
  {Len(Ink(SubSeq(text, 1, i))) : i \in {k \in 1..Len(text) :
     /\ text[k] \notin WhiteSpace
     /\ (k = 1 \/ text[k - 1] \in WhiteSpace)}}

\* the end of the word that starts at s
EndOfWord(text, s) == SetMin({e \in WordEnds(text) : e >= s})

\* the first and last position in Ink(text) of the characters of line i
LineStart(lines, i) == Len(Ink(Join(SubSeq(lines, 1, i - 1)))) + 1
LineEnd(lines, i) == Len(Ink(Join(SubSeq(lines, 1, i))))

LongWord(text, s, width) == EndOfWord(text, s) - s + 1 > width

MaxFieldLen == 50

LowerCase ==
  <<"a", "b", "c", "d", "e", "f", "g", "h", "i", "j", "k", "l", "m", "n",
    "o", "p", "q", "r", "s", "t", "u", "v", "w", "x", "y", "z">>

UpperCase ==
  <<"A", "B", "C", "D", "E", "F", "G", "H", "I", "J", "K", "L", "M", "N",
    "O", "P", "Q", "R", "S", "T", "U", "V", "W", "X", "Y", "Z">>

\* toUpper, for the characters of the texts below
toUpperChar(c) ==
  IF \E k \in 1..Len(LowerCase) : LowerCase[k] = c
  THEN UpperCase[CHOOSE k \in 1..Len(LowerCase) : LowerCase[k] = c]
  ELSE c

toUpper(s) == [k \in 1..Len(s) |-> toUpperChar(s[k])]

\* "Untitled Activity" (line 360)
DefaultName ==
  <<"U", "n", "t", "i", "t", "l", "e", "d", " ", "A", "c", "t", "i", "v",
    "i", "t", "y">>

\* "RUN" (line 362)
DefaultType ==
  <<"R", "U", "N">>

\* "NEW YORK, NEW YORK" (line 364)
DefaultLocation ==
  <<"N", "E", "W", " ", "Y", "O", "R", "K", ",", " ", "N", "E", "W", " ",
    "Y", "O", "R", "K">>

\* dateTimeStr of one activity, as en-US prints it (lines 407-415)
DateSample ==
  <<"S", "a", "t", ",", " ", "J", "a", "n", " ", "4", ",", " ", "2", "0",
    "2", "5", ",", " ", "1", "0", ":", "3", "0", " ", "A", "M", " ", "E",
    "S", "T">>

\* distanceMiles.toFixed(2) of a 5 km run
DistanceSample ==
  <<"3", ".", "1", "1">>

\* `PACE: ${paceStr}` of that run in 25:00
PaceLine ==
  <<"P", "A", "C", "E", ":", " ", "8", ":", "0", "3", " ", "m", "i", "n",
    "/", "m", "i">>

\* `AVG HEART RATE: ${heartRate}`
HeartLine ==
  <<"A", "V", "G", " ", "H", "E", "A", "R", "T", " ", "R", "A", "T", "E",
    ":", " ", "1", "5", "0", " ", "b", "p", "m">>

\* `ELEVATION GAIN: ${elevationGain}`
ElevationLine ==
  <<"E", "L", "E", "V", "A", "T", "I", "O", "N", " ", "G", "A", "I", "N",
    ":", " ", "1", "2", "0", " ", "f", "t">>

\* line 467
TaxLine ==
  <<"(", "S", "T", "R", "A", "V", "A", " ", "T", "A", "X", " ", "I", "N",
    "C", "L", ".", ")">>

\* line 477
RouteTitle ==
  <<"R", "U", "N", " ", "R", "O", "U", "T", "E">>

\* lines 488, 492, 495
RoutePlaceholder ==
  <<"[", "R", "o", "u", "t", "e", " ", "v", "i", "s", "u", "a", "l", "i",
    "z", "a", "t", "i", "o", "n", "]">>

\* line 578
GratuityTitle ==
  <<"S", "U", "G", "G", "E", "S", "T", "E", "D", " ", "G", "R", "A", "T",
    "U", "I", "T", "Y">>

\* line 581
Kudos ==
  <<" ", " ", " ", " ", " ", " ", " ", " ", " ", " ", "[", " ", "]", " ",
    "G", "I", "V", "E", " ", "S", "O", "M", "E", " ", "K", "U", "D", "O",
    "S">>

\* line 582
Share ==
  <<" ", " ", " ", " ", " ", " ", " ", " ", " ", " ", "[", " ", "]", " ",
    "S", "H", "A", "R", "E", " ", "W", "I", "T", "H", " ", "A", " ", "F",
    "R", "I", "E", "N", "D">>

\* line 583
Follow ==
  <<" ", " ", " ", " ", " ", " ", " ", " ", " ", " ", "[", " ", "]", " ",
    "F", "O", "L", "L", "O", "W", " ", "&", " ", "T", "A", "G", " ", "@",
    "_", "R", "E", "_", "P", "E", "T", "E">>

\* line 591
QRTitle ==
  <<"V", "I", "E", "W", " ", "O", "N", " ", "S", "T", "R", "A", "V", "A">>

\* line 604
Footer ==
  <<"<", "<", " ", "A", "T", "H", "L", "E", "T", "E", " ", "C", "O", "P",
    "Y", " ", ">", ">">>

ColCount == <<"C", "O", "U", "N", "T">>
ColType == <<"T", "Y", "P", "E">>
ColMiles == <<"N", "O", ".", " ", "M", "I", "L", "E", "S">>
TotalMiles == <<"T", "O", "T", "A", "L", " ", "M", "I", "L", "E", "S">>

\* ' '.repeat(9)
nameIndent == Repeat(" ", 9)

\* a || b for strings: '' is falsy
OrElse(a, b) == IF a # <<>> THEN a ELSE b

\* a name, a location and a type of every length up to MaxFieldLen; <<>>
\* is a field that is absent
TextInputs ==
  {[NoText EXCEPT !.pc = "start", !.name = Repeat("n", a),
                  !.location = Repeat("l", b), !.type = Repeat("t", c)] :
     a \in 0..MaxFieldLen, b \in {0, 1, 18, 48, MaxFieldLen},
     c \in {0, 3, 24, 26, 27}}

TextInit == ServerOff /\ IdleBut({"ls"}) /\ ls \in TextInputs

notLs == <<serverVars, cs, rs, qs, gs, ps, bs, ts, ws, ds>>

Line(what, text) == [what |-> what, text |-> text]

\* the text lines pushed, in order
TextLines(activityName, location, activityType) ==
  << Line("title", toUpper(activityName)),
     Line("location", toUpper(location)),
     Line("date", toUpper(toUpper(DateSample))),
     Line("divider", Repeat("-", LINE_WIDTH)),
     Line("header", toUpper(threeCol(ColCount, ColType, ColMiles, ColWidths))),
     Line("stat", toUpper(threeCol(<<"1">>, activityType, DistanceSample,
                                   ColWidths))),
     Line("pace", nameIndent \o toUpper(PaceLine)),
     Line("heart", nameIndent \o toUpper(HeartLine)),
     Line("elevation", nameIndent \o toUpper(ElevationLine)),
     Line("divider", Repeat("-", LINE_WIDTH)),
     Line("totals", toUpper(threeCol(<<>>, TotalMiles, DistanceSample,
                                     ColWidths))),
     Line("tax", toUpper(TaxLine)),
     Line("routetitle", toUpper(RouteTitle)),
     Line("placeholder", RoutePlaceholder),
     Line("gratuity", toUpper(GratuityTitle)),
     Line("gratuity", Kudos),
     Line("gratuity", Share),
     Line("gratuity", Follow),
     Line("qrtitle", toUpper(QRTitle)),
     Line("footer", toUpper(Footer)) >>

\* lines 360-364 and the pushes of text of lines 392-606
ComposeText ==
  /\ ls.pc = "start"
  /\ ls' = [ls EXCEPT
       !.pc = "done",
       !.text = TextLines(OrElse(ls.name, DefaultName),
                          OrElse(ls.location, DefaultLocation),
                          OrElse(ls.type, DefaultType))]
  /\ UNCHANGED notLs

TextNext == ComposeText

TextSpec == TextInit /\ [][TextNext]_vars

\* C28: every literal text line the compositor emits (title, location,
\* date, stat lines, totals, placeholders, footer) is at most 48 characters
\* long, for every activity name, location and activity type.
C28_LinesFitLineWidth ==
  ls.pc = "done" =>
    \A k \in 1..Len(ls.text) : Len(ls.text[k].text) <= LINE_WIDTH

\* ------------------------------------------------------------ delivery
\* One composed stream delivered with slow printing on and with it off
\* (lines 610-613, 651-664, 686-691).  The stream is the init block, the
\* title, the location and the footer with the section breaks between them
\* (lines 370-376, 390-404, 600-608), one character for every control
\* sequence.

\* texts an athlete can give: plain, with the marker inside, the marker in
\* lower case, the marker inside the marker, and a marker begun
UserTexts ==
  { <<"r", "u", "n">>,
    <<"a">> \o SECTION_BREAK \o <<"b">>,
    <<"<", "<", "<", "s", "e", "c", "t", "i", "o", "n", ">", ">", ">">>,
    SubSeq(SECTION_BREAK, 1, 6) \o SECTION_BREAK \o SubSeq(SECTION_BREAK, 7, 13),
    SubSeq(SECTION_BREAK, 1, 12),
    SECTION_BREAK \o SECTION_BREAK,
    <<"<", "<", "<">> }

DeliveryInputs ==
  {[NoDelivery EXCEPT !.pc = "start", !.name = a, !.location = b] :
     a \in UserTexts, b \in UserTexts}

DeliveryInit == ServerOff /\ IdleBut({"ds"}) /\ ds \in DeliveryInputs

notDs == <<serverVars, cs, rs, qs, gs, ps, bs, ts, ws, ls>>

\* lines 370-608 and 610: the init block "i", the title, the location and
\* the footer "f", each text upper-cased and followed by "\n"
JoinContent ==
  /\ ds.pc = "start"
  /\ ds' = [ds EXCEPT
       !.pc = "joined",
       !.fullContent =
          Join(<< <<"i">>, SECTION_BREAK,
                  toUpper(ds.name) \o <<"\n">>, SECTION_BREAK,
                  toUpper(ds.location) \o <<"\n">>, SECTION_BREAK,
                  <<"f">> >>)]
  /\ UNCHANGED notDs

\* what is written to the spool, file after file, for a print delay
Delivered(content, printDelay) ==
  LET secs == SplitSections(content)
  IN  IF UsePaced(printDelay, secs)
      THEN secs
      ELSE <<RemoveAll(content, SECTION_BREAK)>>

\* lines 611-685 with SLOW_PRINT_MODE "slow"
DeliverSlow ==
  /\ ds.pc = "joined"
  /\ "slow" \notin ds.sent
  /\ ds' = [ds EXCEPT !.slow = Delivered(ds.fullContent, PrintDelay("slow")),
                      !.sent = @ \cup {"slow"}]
  /\ UNCHANGED notDs

\* lines 611-718 with SLOW_PRINT_MODE "off"
DeliverOff ==
  /\ ds.pc = "joined"
  /\ "off" \notin ds.sent
  /\ ds' = [ds EXCEPT !.off = Delivered(ds.fullContent, PrintDelay("off")),
                      !.sent = @ \cup {"off"}]
  /\ UNCHANGED notDs

DeliveryNext ==
  \/ JoinContent
  \/ DeliverSlow
  \/ DeliverOff

DeliverySpec == DeliveryInit /\ [][DeliveryNext]_vars

\* C29: for every composed stream, one whose name or location contains the
\* marker included, the sections submitted in paced mode, concatenated in
\* order, are the bytes submitted in single-shot mode, and neither contains
\* the text of the break marker.
C29_PacedEqualsSingleNoMarker ==
  ds.sent = {"slow", "off"} =>
    /\ Join(ds.slow) = Join(ds.off)
    /\ IndexOf(Join(ds.slow), SECTION_BREAK) = 0
    /\ IndexOf(Join(ds.off), SECTION_BREAK) = 0

\* ------------------------------------------------------------ two requests
\* Two POST /print requests with an activity, taken one after the other by
\* the handler (lines 745-774), on a machine with a printer, as shipped
\* (SLOW_PRINT_MODE 'slow'), nothing failing and every timer on time.

PairInit ==
  /\ ServerInit
  /\ mode = "slow"
  /\ installed = {"Epson_TM_T20III", "Epson"}
  /\ AuxIdle

PairBodies == {b \in Bodies : b.activity = "object"}

\* most section breaks of a stream of the two requests
MaxPairBreaks == 1

\* the streams composed for them: one section, or two
PairInputs == {in \in StreamInputs : in.breaks <= MaxPairBreaks /\ in.empty = {}}

\* the second request ends whenever it likes after the first
ReqEndPair(body) == Accept(body, MaxJobs + 1)

PairNext ==
  \/ \E body \in PairBodies : ReqEndPair(body)
  \/ \E j \in Jobs, in \in PairInputs : Transmit(j, in, TRUE, TRUE)
  \/ \E e \in execs : ExecCallback(e, FALSE)
  \/ \E t \in timers : NextTimer(t, TRUE)
  \/ \E t \in timers : CleanupTimer(t, TRUE)
  \/ Sleep

PairSpec == PairInit /\ [][PairNext]_vars

\* C30: when two POST /print requests are accepted one after the other,
\* every submission of the first job comes before any submission of the
\* second, and every spool file in the temp directory is the file its
\* writer submitted: no other job wrote over it before.
C30_JobsDoNotInterleave ==
  /\ \A k, l \in 1..Len(submitted) :
       k < l => submitted[k].job <= submitted[l].job
  /\ \A f \in files :
       \E k \in 1..Len(submitted) :
         /\ submitted[k].job = f.job
         /\ submitted[k].file = f.name
         /\ submitted[k].content = f.content

====
